---- MODULE Spec2Model ----
(***************************************************************************)
(* The editor session of the AI writing assistant: the XState machine of   *)
(* lib/editorMachine.ts, the orchestration of components/Editor/Editor.tsx *)
(* (handleContinueWriting, handleReset), the toolbar's disabled flags, the *)
(* typing-effect insertion of lib/prosemirrorSetup.ts and the /api/continue*)
(* endpoint as seen by the client.                                         *)
(*                                                                         *)
(* Strings are sequences of one-character strings.  A nullable field is a  *)
(* set: {} is null and {v} is the value v.  Time is in milliseconds.       *)
(***************************************************************************)
EXTENDS Integers, Sequences, FiniteSets, TLC

VARIABLES
    state,          \* value of the machine: "idle", "loading", "success", "error"
    context,        \* EditorContext of the machine
    timer,          \* ms elapsed of the running `after` delay, NoTimer if none
    now,            \* Date.now()
    doc,            \* ProseMirror document: a sequence of paragraphs of characters
    editorContent,  \* React state editorContent of Editor
    isTyping,       \* React state isTyping of Editor
    calls,          \* the invocations of handleContinueWriting, by order of click
    edits,          \* number of edits the user has made at the keyboard
    lastEvent,      \* test harness: the event it has just sent, else NoEvent
    io              \* test harness: what it gave the function under test, and got

vars ==
    <<state, context, timer, now, doc, editorContent, isTyping, calls, edits,
      lastEvent, io>>
machineVars == <<state, context, timer>>
uiVars == <<doc, editorContent, isTyping, calls, edits>>

(***************************************************************************)
(* Bounds of the model.                                                    *)
(***************************************************************************)
MaxRequests == 2      \* clicks on Continue Writing that reach fetch
MaxEdits == 2         \* edits the user makes at the keyboard
MaxSeconds == 1       \* the machine's test harness sends events this long
MaxTextLen == 2       \* length of the texts the test harnesses draw

(***************************************************************************)
(* Program constants.                                                      *)
(***************************************************************************)
minTimeBetweenRequests == 1000
SuccessDelay == 100
ErrorDelay == 3000

NoTimer == 0 - 1
StartTime == minTimeBetweenRequests   \* Date.now() when the editor mounts
MaxTime == StartTime + MaxSeconds * 1000

\* all strings over the characters S of length at most n
Strings(S, n) == UNION {[1 .. k -> S] : k \in 0 .. n}

Null == {}
Some(v) == {v}
The(o) == CHOOSE v \in o : TRUE

(***************************************************************************)
(* Strings.                                                                *)
(***************************************************************************)
Whitespace == {" ", "\n"}
Punctuation == {".", ",", "!", "?", ";", ":"}

RECURSIVE TrimStart(_)
TrimStart(s) ==
    IF s = <<>> \/ Head(s) \notin Whitespace THEN s ELSE TrimStart(Tail(s))

RECURSIVE TrimEnd(_)
TrimEnd(s) ==
    IF s = <<>> \/ s[Len(s)] \notin Whitespace THEN s
    ELSE TrimEnd(SubSeq(s, 1, Len(s) - 1))

\* String.prototype.trim
Trim(s) == TrimEnd(TrimStart(s))

(***************************************************************************)
(* The machine: lib/editorMachine.ts.                                      *)
(***************************************************************************)
initialContext ==
    [currentText |-> <<>>, generatedText |-> Null, error |-> Null,
     lastRequestTime |-> Null]

ContinueWriting(text) == [type |-> "CONTINUE_WRITING", text |-> text]
Success(g) == [type |-> "SUCCESS", generatedText |-> g]
Error(e) == [type |-> "ERROR", error |-> e]
Reset == [type |-> "RESET"]

\* setCurrentText, had it stored the text trimmed
setCurrentTextTrimmed(ctx, event, t) ==
    [currentText |-> IF event.type = "CONTINUE_WRITING" THEN Trim(event.text) ELSE <<>>,
     lastRequestTime |-> Some(t),
     error |-> Null,
     generatedText |-> Null]

setCurrentText(ctx, event, t) ==
    [currentText |-> IF event.type = "CONTINUE_WRITING" THEN event.text ELSE <<>>,
     lastRequestTime |-> Some(t),
     error |-> Null,
     generatedText |-> Null]

setGeneratedText(ctx, event) ==
    [ctx EXCEPT !.generatedText =
                    IF event.type = "SUCCESS" THEN Some(event.generatedText) ELSE Null,
                !.error = Null]

\* setError, had it cleared the submitted text as well
setErrorClearing(ctx, event) ==
    [ctx EXCEPT !.error = IF event.type = "ERROR" THEN Some(event.error) ELSE Null,
                !.generatedText = Null,
                !.currentText = <<>>]

setError(ctx, event) ==
    [ctx EXCEPT !.error = IF event.type = "ERROR" THEN Some(event.error) ELSE Null,
                !.generatedText = Null]

\* reset, had it kept the submitted text
resetKeepingText(ctx) == [initialContext EXCEPT !.currentText = ctx.currentText]

reset(ctx) == initialContext

\* guard canMakeRequest: defined by the machine, used by no transition
canMakeRequest(ctx, t) ==
    IF ctx.lastRequestTime = Null THEN TRUE
    ELSE t - The(ctx.lastRequestTime) >= minTimeBetweenRequests

\* hasText, had it not trimmed the text
hasTextUntrimmed(event) ==
    IF event.type = "CONTINUE_WRITING" THEN Len(event.text) > 0 ELSE FALSE

hasText(event) ==
    IF event.type = "CONTINUE_WRITING" THEN Len(Trim(event.text)) > 0 ELSE FALSE

\* guard of idle.on.CONTINUE_WRITING
idleContinueGuard(ctx, event, t) == hasText(event)

\* on, had success and error listened to SUCCESS as well
onSuccessAnywhere ==
    {<<"idle", "CONTINUE_WRITING">>, <<"idle", "RESET">>,
     <<"loading", "SUCCESS">>, <<"loading", "ERROR">>,
     <<"error", "RESET">>,
     <<"idle", "SUCCESS">>, <<"success", "SUCCESS">>, <<"error", "SUCCESS">>}

\* on, had every state listened to RESET
onResetAnywhere ==
    {<<"idle", "CONTINUE_WRITING">>, <<"idle", "RESET">>,
     <<"loading", "SUCCESS">>, <<"loading", "ERROR">>,
     <<"error", "RESET">>,
     <<"loading", "RESET">>, <<"success", "RESET">>}

\* states.<st>.on: the events each state has a transition for
on ==
    {<<"idle", "CONTINUE_WRITING">>, <<"idle", "RESET">>,
     <<"loading", "SUCCESS">>, <<"loading", "ERROR">>,
     <<"error", "RESET">>}

\* states.<st>.on.<event>: the new value and context; an event with no
\* enabled transition leaves both as they are
transition(st, ctx, event, t) ==
    IF <<st, event.type>> \notin on THEN [state |-> st, context |-> ctx]
    ELSE CASE event.type = "CONTINUE_WRITING" ->
                IF idleContinueGuard(ctx, event, t)
                THEN [state |-> "loading", context |-> setCurrentText(ctx, event, t)]
                ELSE [state |-> st, context |-> ctx]
           [] event.type = "RESET" ->
                [state |-> "idle", context |-> reset(ctx)]
           [] event.type = "SUCCESS" ->
                [state |-> "success", context |-> setGeneratedText(ctx, event)]
           [] event.type = "ERROR" ->
                [state |-> "error", context |-> setError(ctx, event)]

\* HasAfter, had loading timed out as error does
HasAfterLoading(st) == st \in {"loading", "success", "error"}

\* states.<st>.after
HasAfter(st) == st \in {"success", "error"}
\* AfterDelay, had success waited as long as error
AfterDelayLong(st) == ErrorDelay

\* AfterDelay, had error waited as long as the rate limit
AfterDelayShort(st) == IF st = "success" THEN SuccessDelay ELSE minTimeBetweenRequests

AfterDelay(st) == IF st = "success" THEN SuccessDelay ELSE ErrorDelay

\* send, had the delay of the state left gone on running
sendKeepingTimer(event) ==
    LET r == transition(state, context, event, now) IN
    /\ state' = r.state
    /\ context' = r.context
    /\ timer' = IF r.state # state /\ HasAfter(r.state) THEN 0 ELSE timer

\* send(event): the transition, and the delayed transition of the state
\* entered is scheduled (that of the state left is cancelled)
send(event) ==
    LET r == transition(state, context, event, now) IN
    /\ state' = r.state
    /\ context' = r.context
    /\ timer' = IF r.state = state THEN timer
                ELSE IF HasAfter(r.state) THEN 0 ELSE NoTimer

(***************************************************************************)
(* The document: lib/prosemirrorSetup.ts over ProseMirror.  Position 0 is  *)
(* before the first paragraph; a paragraph of n characters takes n + 2     *)
(* positions (its opening, the n + 1 positions inside it, its closing).    *)
(***************************************************************************)
emptyDoc == << <<>> >>

RECURSIVE contentSize(_)
contentSize(d) ==
    IF d = <<>> THEN 0 ELSE Len(Head(d)) + 2 + contentSize(Tail(d))

RECURSIVE textContent(_)
textContent(d) ==
    IF d = <<>> THEN <<>> ELSE Head(d) \o textContent(Tail(d))

getTextContent(d) == textContent(d)

\* doc.resolve(pos) throws RangeError unless 0 <= pos <= doc.content.size
canResolve(d, pos) == pos >= 0 /\ pos <= contentSize(d)

\* tr.insert(pos, schema.text(ch)): inside a paragraph the character goes at
\* that offset; at a position between blocks the text is wrapped in a new
\* paragraph there
RECURSIVE insertChar(_, _, _)
insertChar(d, pos, ch) ==
    IF d = <<>> \/ pos = 0 THEN << <<ch>> >> \o d
    ELSE LET p == Head(d) IN
         IF pos <= Len(p) + 1
         THEN << SubSeq(p, 1, pos - 1) \o <<ch>> \o SubSeq(p, pos, Len(p)) >>
                  \o Tail(d)
         ELSE <<p>> \o insertChar(Tail(d), pos - (Len(p) + 2), ch)

\* textToInsert, had it tested the text as received
textToInsertUntrimmed(text) ==
    IF text # <<>> /\ Head(text) \in Punctuation
    THEN text ELSE <<" ">> \o text

\* textToInsert, had it always put the space
textToInsertSpaced(text) == <<" ">> \o text

\* textToInsert of insertTextWithTypingEffect
textToInsert(text) ==
    IF Trim(text) # <<>> /\ Head(Trim(text)) \in Punctuation
    THEN text ELSE <<" ">> \o text

\* tr.insert(pos, schema.text(str))
RECURSIVE insertString(_, _, _)
insertString(d, pos, str) ==
    IF str = <<>> THEN d
    ELSE insertString(insertChar(d, pos, Head(str)), pos + 1, Tail(str))

\* insertTextAtEnd, had it inserted the text as received
insertTextAtEndRaw(d, text) == insertString(d, contentSize(d) - 1, text)

\* insertTextAtEnd: the document after
insertTextAtEnd(d, text) == insertString(d, contentSize(d) - 1, textToInsert(text))

\* the texts handleUpdate is called with when a transaction takes the
\* document from old to new: by the view of createUpdatePlugin when the
\* documents differ, then by dispatchTransaction when the transaction has
\* steps
onUpdateCalls(old, new, docChanged) ==
    (IF new # old THEN <<textContent(new)>> ELSE <<>>)
        \o (IF docChanged THEN <<textContent(new)>> ELSE <<>>)

\* dispatchTransaction with docChanged: the new state, then onUpdate
dispatch(d) ==
    /\ doc' = d
    /\ editorContent' = LET texts == onUpdateCalls(doc, d, TRUE) IN texts[Len(texts)]

(***************************************************************************)
(* The /api/continue endpoint and the provider, as the client sees them.   *)
(***************************************************************************)
\* what the provider answers, before continueWithOpenAI trims it
Contents == { <<"b", " ">> }

\* the provider as continueWithOpenAI meets it: an OK response with a
\* content, a non-OK response with or without a message of its own, a fetch
\* that rejects; no_key is the environment without OPENAI_API_KEY
ProviderOutcomes ==
    [kind : {"content"}, content : Contents, message : {""}]
        \cup [kind : {"failed"}, content : {<<>>}, message : {"quota exceeded", ""}]
        \cup [kind : {"threw"}, content : {<<>>}, message : {"fetch failed"}]
        \cup [kind : {"no_key"}, content : {<<>>}, message : {""}]

\* how a call ends: it returns a value or throws an Error with a message
Return(v) == [threw |-> FALSE, value |-> Some(v), message |-> ""]
Throw(m) == [threw |-> TRUE, value |-> Null, message |-> m]

\* a request body: json is "object", "null" or "malformed"; of an object,
\* textType is typeof body.text and text its value when a string
Body(text) == [json |-> "object", textType |-> "string", text |-> text,
               maxTokens |-> 150]
NoTextBody == [Body(<<>>) EXCEPT !.textType = "undefined"]
NumberTextBody == [Body(<<>>) EXCEPT !.textType = "number"]
NullBody == [Body(<<>>) EXCEPT !.json = "null", !.textType = "undefined"]
MalformedBody == [Body(<<>>) EXCEPT !.json = "malformed", !.textType = "undefined"]

\* continueWithOpenAI, had it answered a non-OK response with no text
continueWithOpenAIQuiet(text, p) ==
    IF p.kind = "threw" THEN Throw(p.message)
    ELSE Return(Trim(p.content))

continueWithOpenAI(text, p) ==
    IF p.kind = "threw" THEN Throw(p.message)
    ELSE IF p.kind = "failed"
    THEN Throw(IF p.message # "" THEN p.message ELSE "OpenAI API request failed")
    ELSE Return(Trim(p.content))

\* the try block of continueWriting
continueWritingTry(request, p) ==
    IF request.json # "object"
    THEN Throw("Cannot destructure property 'text' of 'request'")
    ELSE IF request.textType = "number"
    THEN Throw("text.trim is not a function")
    ELSE IF request.textType # "string" \/ Len(Trim(request.text)) = 0
    THEN Throw("Please provide some text to continue from")
    ELSE IF p.kind = "no_key"
    THEN Throw("OpenAI API key not configured. Please add OPENAI_API_KEY to your .env.local file")
    ELSE LET c == continueWithOpenAI(request.text, p) IN
         IF c.threw THEN c ELSE Return([continuedText |-> The(c.value), error |-> Null])

\* continueWriting reaches its call of continueWithOpenAI
callsProvider(request, p) ==
    /\ request.json = "object"
    /\ request.textType = "string"
    /\ Len(Trim(request.text)) # 0
    /\ p.kind # "no_key"

\* continueWriting, had it no catch block
continueWritingUncaught(request, p) == continueWritingTry(request, p)

continueWriting(request, p) ==
    LET c == continueWritingTry(request, p) IN
    IF c.threw
    THEN Return([continuedText |-> <<>>, error |-> Some(c.message)])
    ELSE c

\* POST reaches its call of continueWriting
callsService(body) ==
    /\ body.json = "object"
    /\ body.textType = "string"
    /\ body.text # <<>>
    /\ Len(Trim(body.text)) # 0

\* POST /api/continue
POST(body, p) ==
    IF body.json = "malformed"
    THEN [status |-> 500, continuedText |-> <<>>,
          error |-> Some("Unexpected end of JSON input")]
    ELSE IF body.json = "null"
    THEN [status |-> 500, continuedText |-> <<>>,
          error |-> Some("Cannot read properties of null (reading 'text')")]
    ELSE IF body.textType # "string" \/ body.text = <<>>
    THEN [status |-> 400, continuedText |-> <<>>,
          error |-> Some("Text is required and must be a string")]
    ELSE IF Len(Trim(body.text)) = 0
    THEN [status |-> 400, continuedText |-> <<>>, error |-> Some("Text cannot be empty")]
    ELSE LET c == continueWriting(body, p) IN
         IF c.threw
         THEN [status |-> 500, continuedText |-> <<>>, error |-> Some(c.message)]
         ELSE LET result == The(c.value) IN
              IF result.error # Null /\ The(result.error) # ""
              THEN [status |-> 500, continuedText |-> <<>>, error |-> result.error]
              ELSE [status |-> 200, continuedText |-> result.continuedText,
                    error |-> Null]

\* the completion provider is called while POST serves the request
providerCalled(body, p) == callsService(body) /\ callsProvider(body, p)

\* what `await fetch(...)` and the checks after it give handleContinueWriting:
\* the text to reveal, or the message of the Error thrown
NetworkDown == [ok |-> FALSE, text |-> <<>>, message |-> "Failed to fetch"]

\* clientResult, had it taken an empty continuedText for a failure
clientResultStrict(response) ==
    IF response.status # 200 \/ response.continuedText = <<>>
    THEN [ok |-> FALSE, text |-> <<>>, message |-> "Failed to get AI response"]
    ELSE IF response.error # Null /\ The(response.error) # ""
    THEN [ok |-> FALSE, text |-> <<>>, message |-> The(response.error)]
    ELSE [ok |-> TRUE, text |-> response.continuedText, message |-> ""]

clientResult(response) ==
    IF response.status # 200
    THEN [ok |-> FALSE, text |-> <<>>, message |-> "Failed to get AI response"]
    ELSE IF response.error # Null /\ The(response.error) # ""
    THEN [ok |-> FALSE, text |-> <<>>, message |-> The(response.error)]
    ELSE [ok |-> TRUE, text |-> response.continuedText, message |-> ""]

\* the responses the endpoint may give to the client's request
ServerResponses(text) == {POST(Body(text), p) : p \in ProviderOutcomes}

FetchResults(text) ==
    {NetworkDown} \cup {clientResult(response) : response \in ServerResponses(text)}

(***************************************************************************)
(* The invocations of handleContinueWriting.  pc is "unused" before the    *)
(* click, "fetching" while fetch is awaited, "typing" while                *)
(* insertTextWithTypingEffect runs and "done" after the handler returned.  *)
(* text is currentText, gen is data.continuedText, i and currentPos are    *)
(* the loop variables of insertTextWithTypingEffect.  reset and resetAt    *)
(* are history: a Reset was clicked after this click, when the loop had    *)
(* made resetAt insertions (0 when it had not started).                    *)
(***************************************************************************)
\* the clicks of a session, and one more for the sessions without typing
Clicks == 1 .. MaxRequests
CallIds == 1 .. MaxRequests + 1

NoCall ==
    [pc |-> "unused", text |-> <<>>, gen |-> <<>>, i |-> 0, currentPos |-> 0,
     reset |-> FALSE, resetAt |-> 0]
DoneCall == [NoCall EXCEPT !.pc = "done"]
Fetching(text) == [NoCall EXCEPT !.pc = "fetching", !.text = text]

Active(c) == calls[c].pc \in {"fetching", "typing"}

NoEvent == [type |-> "none"]
NoIo == [of |-> "nothing"]

\* derived flags of Editor and the props of EditorToolbar
isLoading == state = "loading"
isError == state = "error"
continueDisabled == Trim(editorContent) = <<>> \/ isLoading \/ isTyping
resetDisabled == isLoading \/ isTyping
\* {isError && errorMessage && (...)}: the error banner is rendered
bannerVisible == isError /\ context.error # Null /\ The(context.error) # ""

Init ==
    /\ state = "idle"
    /\ context = initialContext
    /\ timer = NoTimer
    /\ now = StartTime
    /\ doc = emptyDoc
    /\ editorContent = <<>>
    /\ isTyping = FALSE
    /\ calls = [c \in CallIds |-> NoCall]
    /\ edits = 0
    /\ lastEvent = NoEvent
    /\ io = NoIo

(***************************************************************************)
(* The user at the keyboard, the cursor at the end of the document.        *)
(***************************************************************************)
UserChars == {"a"}

appendChar(d, ch) == [d EXCEPT ![Len(d)] = Append(d[Len(d)], ch)]

UserType ==
    \E ch \in UserChars :
        /\ edits < MaxEdits
        /\ edits' = edits + 1
        /\ dispatch(appendChar(doc, ch))
        /\ UNCHANGED <<state, context, timer, now, isTyping, calls, lastEvent, io>>

\* Backspace: deletes the character before the cursor, or joins an empty
\* last paragraph backward
UserBackspace ==
    /\ edits < MaxEdits
    /\ doc # emptyDoc
    /\ edits' = edits + 1
    /\ LET last == doc[Len(doc)] IN
       IF last # <<>>
       THEN dispatch([doc EXCEPT ![Len(doc)] = SubSeq(last, 1, Len(last) - 1)])
       ELSE dispatch(SubSeq(doc, 1, Len(doc) - 1))
    /\ UNCHANGED <<state, context, timer, now, isTyping, calls, lastEvent, io>>

(***************************************************************************)
(* components/Editor/Editor.tsx                                            *)
(***************************************************************************)
\* handleContinueWriting up to `await fetch`
handleContinueWriting(c) ==
    LET currentText == getTextContent(doc) IN
    IF Trim(currentText) = <<>>
    THEN UNCHANGED vars
    ELSE /\ send(ContinueWriting(currentText))
         /\ calls' = [calls EXCEPT ![c] = Fetching(currentText)]
         /\ UNCHANGED <<now, doc, editorContent, isTyping, edits, lastEvent, io>>

\* a click on Continue Writing, the button enabled
Click(ids) ==
    \E c \in ids :
        /\ ~continueDisabled
        /\ calls[c].pc = "unused"
        /\ \A b \in CallIds : b < c => calls[b].pc # "unused"
        /\ handleContinueWriting(c)

ClickContinue == Click(Clicks)

\* the catch block, had it not told the machine
catchSilent(c, errorMessage) ==
    /\ isTyping' = FALSE
    /\ UNCHANGED machineVars
    /\ calls' = [calls EXCEPT ![c] = DoneCall]

\* the catch block of handleContinueWriting
catch(c, errorMessage) ==
    /\ isTyping' = FALSE
    /\ send(Error(errorMessage))
    /\ calls' = [calls EXCEPT ![c] = DoneCall]

\* insertTextWithTypingEffect up to its first await: the first character is
\* inserted at once, before the end of the last paragraph
startTyping(c, text) ==
    LET pos == contentSize(doc) - 1 IN
    /\ dispatch(insertChar(doc, pos, textToInsert(text)[1]))
    /\ calls' = [calls EXCEPT ![c].pc = "typing", ![c].gen = text,
                              ![c].i = 1, ![c].currentPos = pos + 1]

\* handleContinueWriting from the resolution of fetch on, r what fetch and
\* the checks after it gave
resolve(c, r) ==
    IF ~r.ok
    THEN /\ catch(c, r.message)
         /\ UNCHANGED <<now, doc, editorContent, edits, lastEvent, io>>
    ELSE /\ isTyping' = TRUE
         /\ startTyping(c, r.text)
         /\ UNCHANGED <<state, context, timer, now, edits, lastEvent, io>>

FetchReturns(c) ==
    /\ calls[c].pc = "fetching"
    /\ \E r \in FetchResults(calls[c].text) : resolve(c, r)

\* one more iteration of the loop of insertTextWithTypingEffect, after the
\* delay of the previous one; tr.insert throws when currentPos is out of range
TypeNext(c) ==
    /\ calls[c].pc = "typing"
    /\ calls[c].i < Len(textToInsert(calls[c].gen))
    /\ IF canResolve(doc, calls[c].currentPos)
       THEN /\ dispatch(insertChar(doc, calls[c].currentPos,
                                   textToInsert(calls[c].gen)[calls[c].i + 1]))
            /\ calls' = [calls EXCEPT ![c].i = @ + 1, ![c].currentPos = @ + 1]
            /\ UNCHANGED <<state, context, timer, now, isTyping, edits, lastEvent, io>>
       ELSE /\ catch(c, "Position out of range")
            /\ UNCHANGED <<now, doc, editorContent, edits, lastEvent, io>>

\* the loop is over: the selection moves to the end, then
\* setIsTyping(false) and send SUCCESS
TypeDone(c) ==
    /\ calls[c].pc = "typing"
    /\ calls[c].i = Len(textToInsert(calls[c].gen))
    /\ isTyping' = FALSE
    /\ send(Success(calls[c].gen))
    /\ calls' = [calls EXCEPT ![c] = DoneCall]
    /\ UNCHANGED <<now, doc, editorContent, edits, lastEvent, io>>

\* handleReset: the document is emptied, then RESET is sent
clearAndReset ==
    /\ dispatch(emptyDoc)
    /\ send(Reset)
    /\ calls' = [c \in CallIds |->
                    IF Active(c) /\ ~calls[c].reset
                    THEN [calls[c] EXCEPT !.reset = TRUE, !.resetAt = calls[c].i]
                    ELSE calls[c]]

handleReset ==
    /\ clearAndReset
    /\ UNCHANGED <<now, isTyping, edits, lastEvent, io>>

ClickReset ==
    /\ ~resetDisabled
    /\ handleReset

(***************************************************************************)
(* Time passes while a delayed transition is pending, and never past the   *)
(* instant at which it is due: the clock is read every SuccessDelay in     *)
(* success and every second in error.  Nothing but setCurrentText reads    *)
(* the clock.                                                              *)
(***************************************************************************)
TickSize(st) == IF st = "success" THEN SuccessDelay ELSE minTimeBetweenRequests

Tick ==
    /\ timer # NoTimer
    /\ timer + TickSize(state) <= AfterDelay(state)
    /\ now' = now + TickSize(state)
    /\ timer' = timer + TickSize(state)
    /\ lastEvent' = NoEvent
    /\ io' = io
    /\ UNCHANGED <<state, context, doc, editorContent, isTyping, calls, edits>>

\* states.success.after / states.error.after: target idle, no action
After ==
    /\ HasAfter(state)
    /\ timer = AfterDelay(state)
    /\ state' = "idle"
    /\ timer' = NoTimer
    /\ lastEvent' = NoEvent
    /\ io' = io
    /\ UNCHANGED <<context, now, doc, editorContent, isTyping, calls, edits>>

Next ==
    \/ UserType
    \/ UserBackspace
    \/ ClickContinue
    \/ \E c \in CallIds : FetchReturns(c)
    \/ \E c \in CallIds : TypeNext(c)
    \/ \E c \in CallIds : TypeDone(c)
    \/ ClickReset
    \/ Tick
    \/ After

Spec == Init /\ [][Next]_vars

(***************************************************************************)
(* The session under the scheduling of the event loop: a pending fetch     *)
(* returns, a pending timeout of the typing effect or of the machine       *)
(* fires.  Nothing is assumed of the user.                                 *)
(***************************************************************************)
Fairness ==
    /\ \A c \in Clicks :
          WF_vars(FetchReturns(c)) /\ WF_vars(TypeNext(c)) /\ WF_vars(TypeDone(c))
    /\ WF_vars(Tick)
    /\ WF_vars(After)

FairSpec == Spec /\ Fairness

(***************************************************************************)
(* The session from the moment the user has typed a first character, with  *)
(* one more click on Continue Writing than above.                          *)
(***************************************************************************)
ClickInit ==
    /\ state = "idle"
    /\ context = initialContext
    /\ timer = NoTimer
    /\ now = StartTime
    /\ doc = << <<"a">> >>
    /\ editorContent = <<"a">>
    /\ isTyping = FALSE
    /\ calls = [c \in CallIds |-> NoCall]
    /\ edits = 1
    /\ lastEvent = NoEvent
    /\ io = NoIo

ClickNext ==
    \/ UserType
    \/ UserBackspace
    \/ Click(CallIds)
    \/ \E c \in CallIds : FetchReturns(c)
    \/ \E c \in CallIds : TypeNext(c)
    \/ \E c \in CallIds : TypeDone(c)
    \/ ClickReset
    \/ Tick
    \/ After

ClickSpec == ClickInit /\ [][ClickNext]_vars

(***************************************************************************)
(* The machine alone, under a test harness that sends it any event at any  *)
(* time.                                                                   *)
(***************************************************************************)
EventTexts == Strings({"a", " "}, MaxTextLen)

Events ==
    {ContinueWriting(t) : t \in EventTexts}
        \cup {Success(g) : g \in {<<"b">>}}
        \cup {Error(e) : e \in {"Failed to get AI response"}}
        \cup {Reset}

Deliver ==
    \E event \in Events :
        /\ now < MaxTime
        /\ send(event)
        /\ lastEvent' = event
        /\ io' = io
        /\ UNCHANGED <<now, doc, editorContent, isTyping, calls, edits>>

MachineNext ==
    \/ Deliver
    \/ Tick
    \/ After

MachineSpec == Init /\ [][MachineNext]_vars

\* the machine's clock runs and its delayed transitions fire when due
MachineFairness == WF_vars(Tick) /\ WF_vars(After)

MachineFairSpec == MachineSpec /\ MachineFairness

(***************************************************************************)
(* The machine's delays under test: the harness sends any event, also      *)
(* while a delay is running, and keeps in io the time at which the machine *)
(* last entered success or error, and, once a RESET has taken it out of    *)
(* error, the time at which the delay so cancelled was due.                *)
(***************************************************************************)
TimerInit ==
    /\ state = "idle"
    /\ context = initialContext
    /\ timer = NoTimer
    /\ now = StartTime
    /\ doc = emptyDoc
    /\ editorContent = <<>>
    /\ isTyping = FALSE
    /\ calls = [c \in CallIds |-> NoCall]
    /\ edits = 0
    /\ lastEvent = NoEvent
    /\ io = [of |-> "timer", enteredAt |-> 0, cancelledDue |-> Null]

TimedDeliver ==
    \E event \in Events :
        /\ now <= MaxTime
        /\ send(event)
        /\ lastEvent' = event
        /\ io' = [io EXCEPT
                    !.enteredAt = IF state' # state /\ HasAfter(state') THEN now ELSE @,
                    !.cancelledDue = IF state = "error" /\ state' # "error"
                                     THEN Some(io.enteredAt + ErrorDelay) ELSE @]
        /\ UNCHANGED <<now, doc, editorContent, isTyping, calls, edits>>

TimerNext ==
    \/ TimedDeliver
    \/ Tick
    \/ After

TimerSpec == TimerInit /\ [][TimerNext]_vars

(***************************************************************************)
(* insertTextWithTypingEffect alone: a document, a click accepted on it,   *)
(* and a response carrying any text, with nobody else touching the         *)
(* document.                                                               *)
(***************************************************************************)
RevealTexts == Strings({"b", "!", " "}, MaxTextLen)

RevealDocs ==
    {d \in UNION {[1 .. k -> Strings({"a", " "}, MaxTextLen)] : k \in 1 .. 2} :
        Trim(textContent(d)) # <<>>}

RevealInit ==
    /\ doc \in RevealDocs
    /\ state = "loading"
    /\ context = setCurrentText(initialContext, ContinueWriting(textContent(doc)),
                                StartTime)
    /\ timer = NoTimer
    /\ now = StartTime
    /\ editorContent = textContent(doc)
    /\ isTyping = FALSE
    /\ calls = [c \in CallIds |-> IF c = 1 THEN Fetching(textContent(doc)) ELSE NoCall]
    /\ edits = 0
    /\ lastEvent = NoEvent
    /\ io = NoIo

Respond ==
    \E text \in RevealTexts :
        /\ calls[1].pc = "fetching"
        /\ isTyping' = TRUE
        /\ startTyping(1, text)
        /\ UNCHANGED <<state, context, timer, now, edits, lastEvent, io>>

RevealNext ==
    \/ Respond
    \/ TypeNext(1)
    \/ TypeDone(1)

RevealSpec == RevealInit /\ [][RevealNext]_vars

(***************************************************************************)
(* One accepted request under test: the text is submitted and the request  *)
(* in flight; what the network and the provider will do is drawn; the user *)
(* may edit while the answer is awaited and typed.                         *)
(***************************************************************************)
\* the providers drawn for it: those of a session, one that answers a
\* longer text and one that answers white space
RequestProviders ==
    ProviderOutcomes
        \cup [kind : {"content"}, content : { <<"!", "b", "b", "b">>, <<" ">> },
              message : {""}]

RequestInit ==
    /\ doc \in RevealDocs
    /\ editorContent = textContent(doc)
    /\ state = "loading"
    /\ context = setCurrentText(initialContext, ContinueWriting(textContent(doc)),
                                StartTime)
    /\ timer = NoTimer
    /\ now = StartTime
    /\ isTyping = FALSE
    /\ calls = [c \in CallIds |-> IF c = 1 THEN Fetching(textContent(doc)) ELSE NoCall]
    /\ edits = 0
    /\ lastEvent = NoEvent
    /\ io \in [of : {"request"}, network : {"up", "down"}, provider : RequestProviders]

Answer ==
    /\ calls[1].pc = "fetching"
    /\ resolve(1, IF io.network = "down" THEN NetworkDown
                  ELSE clientResult(POST(Body(calls[1].text), io.provider)))

RequestNext ==
    \/ Answer
    \/ TypeNext(1)
    \/ TypeDone(1)
    \/ UserType
    \/ UserBackspace
    \/ Tick
    \/ After

RequestSpec == RequestInit /\ [][RequestNext]_vars

(***************************************************************************)
(* The document operations under test: texts are appended with             *)
(* insertTextAtEnd, the document is cleared as handleReset clears it, the  *)
(* selection is moved.  io keeps the text the document started from or was *)
(* cleared to, the texts appended since, and what handleUpdate was called  *)
(* with during the last operation, which made `changes` transactions that  *)
(* change the content.                                                     *)
(***************************************************************************)
AdapterInit ==
    /\ doc \in RevealDocs \cup {emptyDoc}
    /\ editorContent = textContent(doc)
    /\ state = "idle"
    /\ context = initialContext
    /\ timer = NoTimer
    /\ now = StartTime
    /\ isTyping = FALSE
    /\ calls = [c \in CallIds |-> NoCall]
    /\ edits = 0
    /\ lastEvent = NoEvent
    /\ io = [of |-> "adapter", base |-> textContent(doc), appended |-> <<>>,
             cleared |-> FALSE, changes |-> 0, callbacks |-> <<>>]

AppendTexts == {<<>>, <<"b">>, <<"!">>, <<" ", "!">>, <<"b", " ">>}

\* insertTextAtEnd: the insertion, then the selection moved to the end
AppendText ==
    \E text \in AppendTexts :
        /\ edits < MaxEdits
        /\ edits' = edits + 1
        /\ dispatch(insertTextAtEnd(doc, text))
        /\ io' = [io EXCEPT !.appended = Append(@, text), !.changes = 1,
                            !.callbacks = onUpdateCalls(doc, doc', TRUE)
                                            \o onUpdateCalls(doc', doc', FALSE)]
        /\ UNCHANGED <<state, context, timer, now, isTyping, calls, lastEvent>>

Clear ==
    /\ clearAndReset
    /\ io' = [io EXCEPT !.base = <<>>, !.appended = <<>>, !.cleared = TRUE,
                        !.changes = 1,
                        !.callbacks = onUpdateCalls(doc, doc', TRUE)]
    /\ UNCHANGED <<now, isTyping, edits, lastEvent>>

\* a transaction that sets the selection only
Select ==
    /\ io' = [io EXCEPT !.changes = 0,
                        !.callbacks = onUpdateCalls(doc, doc, FALSE)]
    /\ UNCHANGED <<state, context, timer, now, doc, editorContent, isTyping, calls,
                   edits, lastEvent>>

AdapterNext ==
    \/ AppendText
    \/ Clear
    \/ Select

AdapterSpec == AdapterInit /\ [][AdapterNext]_vars

(***************************************************************************)
(* The endpoint and the service under test: a body and a provider are      *)
(* drawn, POST serves the body and continueWriting is called with it.      *)
(***************************************************************************)
EndpointBodies ==
    {Body(t) : t \in EventTexts}
        \cup {NoTextBody, NumberTextBody, NullBody, MalformedBody}

EndpointProviders ==
    ProviderOutcomes
        \cup [kind : {"content"}, content : Strings({"b", " "}, MaxTextLen),
              message : {""}]

EndpointInit ==
    /\ state = "idle"
    /\ context = initialContext
    /\ timer = NoTimer
    /\ now = StartTime
    /\ doc = emptyDoc
    /\ editorContent = <<>>
    /\ isTyping = FALSE
    /\ calls = [c \in CallIds |-> NoCall]
    /\ edits = 0
    /\ lastEvent = NoEvent
    /\ io \in [of : {"endpoint"}, body : EndpointBodies, provider : EndpointProviders,
                response : {Null}, result : {Null}, providerCalled : {FALSE}]

Serve ==
    /\ io.response = Null
    /\ io' = [io EXCEPT !.response = Some(POST(io.body, io.provider)),
                        !.providerCalled = providerCalled(io.body, io.provider)]
    /\ UNCHANGED <<state, context, timer, now, doc, editorContent, isTyping, calls,
                   edits, lastEvent>>

Call ==
    /\ io.result = Null
    /\ io' = [io EXCEPT !.result = Some(continueWriting(io.body, io.provider))]
    /\ UNCHANGED <<state, context, timer, now, doc, editorContent, isTyping, calls,
                   edits, lastEvent>>

EndpointNext ==
    \/ Serve
    \/ Call

EndpointSpec == EndpointInit /\ [][EndpointNext]_vars

(***************************************************************************)
(* Authentication: POST /api/auth/login and the AuthProvider of             *)
(* lib/auth-context.tsx.  Names and passwords are compared and tested for  *)
(* emptiness only, so they are plain strings here; a field of the body or  *)
(* a variable of the environment that is absent is null.                   *)
(***************************************************************************)
\* !value of JavaScript, for a nullable string
Falsy(o) == o = Null \/ o = Some("")

LoginBody(username, password) ==
    [json |-> "object", username |-> username, password |-> password]
NullLoginBody == [LoginBody(Null, Null) EXCEPT !.json = "null"]
MalformedLoginBody == [LoginBody(Null, Null) EXCEPT !.json = "malformed"]

\* POST /api/auth/login, env holding AUTH_USERNAME and AUTH_PASSWORD
LoginPOST(body, env) ==
    IF body.json # "object"
    THEN [status |-> 500, success |-> FALSE, message |-> "An error occurred"]
    ELSE IF Falsy(body.username) \/ Falsy(body.password)
    THEN [status |-> 400, success |-> FALSE,
          message |-> "Username and password are required"]
    ELSE IF Falsy(env.username) \/ Falsy(env.password)
    THEN [status |-> 500, success |-> FALSE, message |-> "Authentication not configured"]
    ELSE IF body.username = env.username /\ body.password = env.password
    THEN [status |-> 200, success |-> TRUE, message |-> ""]
    ELSE [status |-> 401, success |-> FALSE, message |-> "Invalid credentials"]

\* response.ok
responseOk(response) == response.status >= 200 /\ response.status <= 299

Credentials == {"", "u", "v"}
EnvValues == {Null, Some(""), Some("u")}
LoginFields == {Null} \cup {Some(v) : v \in Credentials}

LoginBodies ==
    {LoginBody(username, password) : username \in LoginFields, password \in LoginFields}
        \cup {NullLoginBody, MalformedLoginBody}

\* io keeps the environment of the server, the last body posted to the
\* endpoint and its response, sessionStorage's ai_editor_auth, the state
\* of AuthProvider, and whether login has had a successful response
LoginInit ==
    /\ state = "idle"
    /\ context = initialContext
    /\ timer = NoTimer
    /\ now = StartTime
    /\ doc = emptyDoc
    /\ editorContent = <<>>
    /\ isTyping = FALSE
    /\ calls = [c \in CallIds |-> NoCall]
    /\ edits = 0
    /\ lastEvent = NoEvent
    /\ io \in [of : {"login"},
                env : [username : EnvValues, password : EnvValues],
                body : {Null}, response : {Null},
                stored : {FALSE}, isAuthenticated : {FALSE}, isLoading : {TRUE},
                succeeded : {FALSE}]

loginFrame ==
    UNCHANGED <<state, context, timer, now, doc, editorContent, isTyping, calls,
                edits, lastEvent>>

\* a request posted to the endpoint by any client
PostLogin ==
    \E body \in LoginBodies :
        /\ io' = [io EXCEPT !.body = Some(body),
                            !.response = Some(LoginPOST(body, io.env))]
        /\ loginFrame

\* AuthProvider mounts, on the first load of the page or a reload of it
checkAuthStatus ==
    /\ io' = [io EXCEPT !.isAuthenticated = io.stored, !.isLoading = FALSE]
    /\ loginFrame

\* login of AuthProvider, from its call to its return
login ==
    \E username \in Credentials, password \in Credentials, network \in {"up", "down"} :
        LET body == LoginBody(Some(username), Some(password))
            response == LoginPOST(body, io.env)
        IN /\ ~io.isLoading
           /\ ~io.isAuthenticated
           /\ IF network = "up" /\ responseOk(response)
              THEN io' = [io EXCEPT !.body = Some(body), !.response = Some(response),
                                    !.stored = TRUE, !.isAuthenticated = TRUE,
                                    !.succeeded = TRUE]
              ELSE IF network = "up"
              THEN io' = [io EXCEPT !.body = Some(body), !.response = Some(response)]
              ELSE io' = io
           /\ loginFrame

logout ==
    /\ io.isAuthenticated
    /\ io' = [io EXCEPT !.stored = FALSE, !.isAuthenticated = FALSE]
    /\ loginFrame

LoginNext ==
    \/ PostLogin
    \/ checkAuthStatus
    \/ login
    \/ logout

LoginSpec == LoginInit /\ [][LoginNext]_vars

(***************************************************************************)
(* Claims.                                                                 *)
(***************************************************************************)
Complete(c) ==
    calls[c].pc = "typing" /\ calls[c].i = Len(textToInsert(calls[c].gen))

LeadsWithPunctuation(text) ==
    Trim(text) # <<>> /\ Head(Trim(text)) \in Punctuation

\* C1: a CONTINUE_WRITING is accepted from idle (idle -> loading) only when
\* lastRequestTime is null or at least 1000 ms old; one sent sooner changes
\* nothing.
SubmitRateLimited ==
    [][(state = "idle" /\ state' = "loading") => canMakeRequest(context, now)]_vars

\* C2: a CONTINUE_WRITING whose text is empty or only whitespace, received
\* in idle, leaves the machine in idle and the whole context unchanged.
BlankSubmitIgnored ==
    [][(/\ lastEvent'.type = "CONTINUE_WRITING"
        /\ Trim(lastEvent'.text) = <<>>
        /\ state = "idle")
       => (state' = "idle" /\ context' = context /\ timer' = timer)]_vars

BlankSubmitSeen ==
    /\ lastEvent.type = "CONTINUE_WRITING"
    /\ lastEvent.text # <<>>
    /\ Trim(lastEvent.text) = <<>>
    /\ state = "idle"
    /\ context.lastRequestTime # Null
    /\ context.generatedText # Null

StaleSuccessIgnored ==
    [][(lastEvent'.type = "SUCCESS" /\ state # "loading")
       => UNCHANGED <<state, context, timer>>]_vars

SuccessSeenInError ==
    /\ lastEvent.type = "SUCCESS"
    /\ state = "error"
    /\ context.generatedText = Null

\* C5: the response to a request that was in flight when Reset was clicked
\* is discarded: no step of that invocation changes the document, the value
\* of the machine or its context.
StaleResponseDiscarded ==
    [][\A c \in CallIds :
          (Active(c) /\ calls[c].reset /\ calls'[c] # calls[c])
          => (doc' = doc /\ state' = state /\ context' = context)]_vars

\* C11: once Reset has been clicked while a typing effect had made k >= 1
\* insertions, that typing effect inserts no further character: no later
\* step of it changes the document.
CancelledRevealStops ==
    [][\A c \in CallIds :
          (calls[c].pc = "typing" /\ calls[c].resetAt >= 1 /\ calls'[c] # calls[c])
          => doc' = doc]_vars

\* C12: at most one typing effect is running at any time.
OneRevealAtATime ==
    Cardinality({c \in CallIds : calls[c].pc = "typing"}) <= 1

\* C13: the error banner is visible exactly while the machine is in error,
\* and a click on Continue Writing made while it is visible hides it.
BannerWhileFailed ==
    [][/\ bannerVisible' <=> (state' = "error")
       /\ (bannerVisible /\ \E c \in CallIds :
                                calls[c].pc = "unused" /\ calls'[c].pc = "fetching")
            => ~bannerVisible']_vars

\* C14: when the provider fails with a reason, the error the machine stores
\* in error, which the banner shows, is exactly that reason.
FailureReasonVerbatim ==
    (/\ io.network = "up"
     /\ io.provider.kind \in {"failed", "threw"}
     /\ calls[1].pc = "done"
     /\ state = "error")
    => context.error = Some(continueWithOpenAI(context.currentText, io.provider).message)

\* C20: the handler of an accepted request sends the machine exactly one
\* result: the machine leaves loading in the step in which the handler
\* ends, and only then; to success with the generated text when the typing
\* effect has run to its end, to error with a message when fetch, the
\* checks of the response or an insertion threw; nothing but the delayed
\* transition moves the machine afterwards.
ResultEventOnce ==
    [][/\ (calls[1].pc # "done" /\ calls'[1].pc = "done")
            => /\ state = "loading"
               /\ IF Complete(1)
                  THEN /\ state' = "success"
                       /\ context'.generatedText = Some(calls[1].gen)
                       /\ context'.error = Null
                  ELSE /\ state' = "error"
                       /\ context'.error # Null
                       /\ The(context'.error) # ""
                       /\ context'.generatedText = Null
       /\ (state = "loading" /\ state' # "loading")
            => (calls[1].pc # "done" /\ calls'[1].pc = "done")
       /\ (calls[1].pc = "done" /\ state' # state)
            => (state' = "idle" /\ context' = context)]_vars

InsertionThrew ==
    /\ calls[1].pc = "done"
    /\ state = "error"
    /\ context.error = Some("Position out of range")
    /\ io.provider.kind = "content"

RECURSIVE Concat(_)
Concat(texts) ==
    IF texts = <<>> THEN <<>> ELSE Head(texts) \o Concat(Tail(texts))

RECURSIVE ConcatSpaced(_)
ConcatSpaced(texts) ==
    IF texts = <<>> THEN <<>>
    ELSE (IF LeadsWithPunctuation(Head(texts)) THEN <<>> ELSE <<" ">>)
            \o Head(texts) \o ConcatSpaced(Tail(texts))

\* C15, as claimed: the plain text is the text the document started from,
\* or the empty text once cleared, followed by the texts appended since,
\* one after the other and nothing else.
AppendsConcatenate ==
    textContent(doc) = io.base \o Concat(io.appended)

\* C15, amended: the plain text is the text the document started from, or
\* the empty text once cleared, followed by the texts appended since, each
\* preceded by one space unless, trimmed, it starts with one of . , ! ? ; :
AppendsConcatenateSpaced ==
    /\ getTextContent(doc) = io.base \o ConcatSpaced(io.appended)
    /\ (io.cleared /\ io.appended = <<>>) => getTextContent(doc) = <<>>

ClearedThenAppendedTwice ==
    /\ io.cleared
    /\ io.appended = << <<"b">>, <<"!">> >>
    /\ getTextContent(doc) = <<" ", "b", "!">>

\* C16: an operation calls handleUpdate once for each of its transactions
\* that change the content, with the new plain text, and not at all for a
\* transaction that only sets the selection; editorContent is the plain
\* text of the document.
OneCallbackPerChange ==
    /\ Len(io.callbacks) = io.changes
    /\ \A k \in 1 .. Len(io.callbacks) : io.callbacks[k] = textContent(doc)
    /\ editorContent = textContent(doc)

InvalidText(body) ==
    body.json # "object" \/ body.textType # "string" \/ Trim(body.text) = <<>>

\* C17: a request whose text is missing, not a string, empty or only
\* whitespace is answered with status 400 and an error message, and the
\* completion provider is not called for it.
InvalidTextRejected ==
    (io.response # Null /\ InvalidText(io.body))
    => (/\ The(io.response).status = 400
        /\ The(io.response).error # Null
        /\ ~io.providerCalled)

\* C18: a request with valid text is answered with status 200, the
\* generated text and no error when the provider succeeded, and with status
\* 500, an empty continuedText and a non-empty error when it did not.
ValidTextAnswered ==
    (io.response # Null /\ ~InvalidText(io.body))
    => LET r == The(io.response) IN
       IF io.provider.kind = "content"
       THEN r.status = 200 /\ r.continuedText = Trim(io.provider.content)
                           /\ r.error = Null
       ELSE r.status = 500 /\ r.continuedText = <<>>
                           /\ r.error # Null /\ The(r.error) # ""

ProviderFailureAnswered ==
    /\ io.response # Null
    /\ io.body.text = <<" ", "a">>
    /\ io.provider.kind = "failed"
    /\ io.provider.message = ""
    /\ The(io.response).status = 500
    /\ The(io.response).error = Some("OpenAI API request failed")

\* C19: continueWriting does not throw; what it returns has either no
\* error, or a non-empty error and the empty continuedText; it has no error
\* exactly when the text is valid, the key is set and the provider answered.
ServiceNeverThrows ==
    io.result # Null
    => /\ ~The(io.result).threw
       /\ LET v == The(The(io.result).value) IN
          IF ~InvalidText(io.body) /\ io.provider.kind = "content"
          THEN v.error = Null /\ v.continuedText = Trim(io.provider.content)
          ELSE v.error # Null /\ The(v.error) # "" /\ v.continuedText = <<>>

NetworkErrorReturned ==
    /\ io.result # Null
    /\ io.provider.kind = "threw"
    /\ ~InvalidText(io.body)
    /\ The(The(io.result).value) =
           [continuedText |-> <<>>, error |-> Some("fetch failed")]

\* C6: fetch is called only for a click whose CONTINUE_WRITING the machine
\* accepted, that is, one that took it from idle to loading.
FetchOnlyWhenAccepted ==
    [][(\E c \in CallIds : calls[c].pc = "unused" /\ calls'[c].pc = "fetching")
       => (state = "idle" /\ state' = "loading")]_vars

\* C7: the delay of error runs from the entry into error, in step with the
\* clock; the machine leaves error only to idle, and only when the delay has
\* reached 3000 ms or on a RESET; a RESET received in error moves it to idle
\* at once; it is never in error with more than 3000 ms elapsed.
ErrorDwell ==
    [][/\ (state # "error" /\ state' = "error") => timer' = 0
       /\ (state = "error" /\ state' = "error")
            => (timer' - timer = now' - now /\ timer' <= ErrorDelay)
       /\ (state = "error" /\ state' # "error")
            => (state' = "idle" /\ (lastEvent'.type = "RESET" \/ timer = ErrorDelay))
       /\ (state = "error" /\ lastEvent'.type = "RESET") => state' = "idle"]_vars

ErrorTimedOut ==
    /\ state = "idle"
    /\ lastEvent = NoEvent
    /\ context.error # Null
    /\ now - The(context.lastRequestTime) = ErrorDelay

\* C8: under the scheduling of the event loop the session is, again and
\* again, in idle with no typing effect running, where Continue Writing is
\* enabled for a non-blank text.
Recovers == []<>(state = "idle" /\ ~isTyping)

RecoveredFromError ==
    /\ state = "idle"
    /\ ~isTyping
    /\ context.error # Null
    /\ \A c \in Clicks : calls[c].pc = "done"

\* C9: with nobody else editing, once the typing effect has inserted its
\* last character the plain text is the text it started from followed by the
\* generated text, with one space between them unless the generated text,
\* trimmed, starts with one of . , ! ? ; :
RevealAppends ==
    \A c \in CallIds :
        Complete(c) =>
            textContent(doc) =
                IF LeadsWithPunctuation(calls[c].gen)
                THEN calls[c].text \o calls[c].gen
                ELSE calls[c].text \o <<" ">> \o calls[c].gen

RevealedBothWays ==
    /\ Complete(1)
    /\ Len(doc) = 2
    /\ calls[1].gen = <<" ", "!">>
    /\ textContent(doc) = calls[1].text \o <<" ", "!">>

RevealWhileRevealing ==
    [][/\ \A c \in CallIds :
             (calls'[c].pc = "typing" /\ calls'[c].i # calls[c].i)
             => (state = "success" /\ state' = "success")
       /\ (state = "success" /\ state' = "idle")
             => \A c \in CallIds : calls[c].pc # "typing"]_vars

\* C22: lastRequestTime is written by the transition from success to idle,
\* with the time of that transition, and by no other: not by the acceptance
\* of a CONTINUE_WRITING.
StampedAtCompletion ==
    [][/\ (state = "success" /\ state' = "idle")
            => context'.lastRequestTime = Some(now')
       /\ (state = "idle" /\ state' = "loading")
            => context'.lastRequestTime = context.lastRequestTime]_vars

\* C23: once set, lastRequestTime is never null again and never decreases,
\* whatever event the machine receives, RESET in idle or in error included.
StampPersists ==
    [][context.lastRequestTime # Null
       => /\ context'.lastRequestTime # Null
          /\ The(context'.lastRequestTime) >= The(context.lastRequestTime)]_vars

\* C24: error is non-null only in error and generatedText only in success;
\* in idle both are null.
FieldsOwnedByState ==
    /\ context.error # Null => state = "error"
    /\ context.generatedText # Null => state = "success"

\* C25: the machine leaves loading only on a SUCCESS, to success, or on an
\* ERROR, to error; loading has no delayed transition, and any other event
\* received in loading, RESET and CONTINUE_WRITING included, leaves the
\* machine as it is, so that without a result it stays in loading.
LoadingLeftByResultOnly ==
    [][state = "loading"
       => /\ timer = NoTimer
          /\ state' # "loading"
               => \/ lastEvent'.type = "SUCCESS" /\ state' = "success"
                  \/ lastEvent'.type = "ERROR" /\ state' = "error"
          /\ lastEvent'.type \notin {"SUCCESS", "ERROR"}
               => UNCHANGED <<state, context, timer>>]_vars

ResetSeenInLoading ==
    /\ state = "loading"
    /\ lastEvent.type = "RESET"
    /\ now > StartTime

\* C26: an event for which the state has no transition is ignored without
\* an error: CONTINUE_WRITING outside idle, ERROR outside loading, and RESET
\* in loading or success leave the value of the machine, every field of the
\* context and the pending delay unchanged.
UndefinedPairsIgnored ==
    [][(\/ lastEvent'.type = "CONTINUE_WRITING" /\ state # "idle"
        \/ lastEvent'.type = "ERROR" /\ state # "loading"
        \/ lastEvent'.type = "RESET" /\ state \in {"loading", "success"})
       => UNCHANGED <<state, context, timer>>]_vars

ResetSeenInSuccess ==
    /\ state = "success"
    /\ lastEvent.type = "RESET"
    /\ context.generatedText # Null
    /\ timer = 0

\* C27: in loading, SUCCESS with g moves the machine to success with
\* generatedText = g and error = null, and ERROR with r moves it to error
\* with error = r and generatedText = null; both leave currentText and
\* lastRequestTime as they were.
ResultStored ==
    [][/\ (state = "loading" /\ lastEvent'.type = "SUCCESS")
            => /\ state' = "success"
               /\ context'.generatedText = Some(lastEvent'.generatedText)
               /\ context'.error = Null
               /\ context'.currentText = context.currentText
               /\ context'.lastRequestTime = context.lastRequestTime
       /\ (state = "loading" /\ lastEvent'.type = "ERROR")
            => /\ state' = "error"
               /\ context'.error = Some(lastEvent'.error)
               /\ context'.generatedText = Null
               /\ context'.currentText = context.currentText
               /\ context'.lastRequestTime = context.lastRequestTime]_vars

ErrorStoredOverText ==
    /\ state = "error"
    /\ lastEvent.type = "ERROR"
    /\ context.error = Some(lastEvent.error)
    /\ context.currentText = <<"a", " ">>
    /\ context.lastRequestTime = Some(now)
    /\ now > StartTime

\* C28: when Reset is clicked with the machine in idle or in error, the
\* machine is in idle afterwards, the plain text of the document is empty,
\* and currentText, generatedText and error have their initial values.
ResetRestores ==
    [][(ClickReset /\ state \in {"idle", "error"})
       => /\ state' = "idle"
          /\ timer' = NoTimer
          /\ getTextContent(doc') = <<>>
          /\ editorContent' = <<>>
          /\ context'.currentText = <<>>
          /\ context'.generatedText = Null
          /\ context'.error = Null]_vars

ResetFromErrorSeen ==
    /\ state = "idle"
    /\ now = StartTime
    /\ calls[1].pc = "done"
    /\ context = initialContext
    /\ doc = emptyDoc

\* C29: every step of a running typing effect inserts its character at the
\* end of the document as it then is, just before the closing of the last
\* paragraph, whatever the user has typed or deleted since the step before;
\* no step throws.
RevealAtCurrentEnd ==
    [][\A c \in CallIds :
          (calls[c].pc = "typing" /\ ~Complete(c) /\ calls'[c] # calls[c])
          => /\ calls'[c].pc = "typing"
             /\ doc' = insertChar(doc, contentSize(doc) - 1,
                                  textToInsert(calls[c].gen)[calls[c].i + 1])]_vars

\* C30: a delay is pending only in success and in error; the machine
\* changes state without an event only from success or error, when the
\* delay of that state has run in full since the machine entered it; so
\* the delay a RESET cancelled in error fires in no later state, and a
\* later stay in error lasts 3000 ms from its own entry.
CancelledDelayNeverFires ==
    [][/\ state \in {"idle", "loading"} => timer = NoTimer
       /\ (state' # state /\ lastEvent' = NoEvent)
            => /\ HasAfter(state)
               /\ state' = "idle"
               /\ timer = AfterDelay(state)
               /\ now = io.enteredAt + AfterDelay(state)]_vars

OutlivedCancelledDelay ==
    /\ state = "idle"
    /\ lastEvent = NoEvent
    /\ context.error # Null
    /\ io.cancelledDue # Null
    /\ io.enteredAt < The(io.cancelledDue)
    /\ The(io.cancelledDue) < now
    /\ now = io.enteredAt + ErrorDelay

\* C31: the machine enters success only from loading, on SUCCESS, and
\* loading only from idle; no event received in success changes the value,
\* the context or the delay; it leaves success only for idle, when 100 ms
\* have run, with the context as it was; and once in success it does reach
\* idle with no further event.
SuccessPassesToIdle ==
    /\ [][/\ (state # "success" /\ state' = "success")
               => (state = "loading" /\ lastEvent'.type = "SUCCESS")
          /\ (state # "loading" /\ state' = "loading") => state = "idle"
          /\ (state = "success" /\ lastEvent' # NoEvent)
               => UNCHANGED <<state, context, timer>>
          /\ (state = "success" /\ state' # "success")
               => /\ state' = "idle"
                  /\ lastEvent' = NoEvent
                  /\ timer = SuccessDelay
                  /\ context' = context]_vars
    /\ (state = "success") ~> (state = "idle")

SuccessTimedOut ==
    /\ state = "idle"
    /\ lastEvent = NoEvent
    /\ context.generatedText # Null
    /\ context.lastRequestTime # Null
    /\ now = The(context.lastRequestTime) + SuccessDelay

\* C32: a click the machine accepts sends the endpoint the plain text the
\* document has at the click, with maxTokens 150, and the machine records
\* that same text as currentText; neither changes while the request is
\* pending, whatever the user edits meanwhile.
RequestCarriesClickedText ==
    [][/\ \A c \in CallIds :
             /\ (calls[c].pc = "unused" /\ calls'[c].pc = "fetching"
                   /\ state = "idle" /\ state' = "loading")
                  => /\ Body(calls'[c].text).text = getTextContent(doc)
                     /\ Body(calls'[c].text).maxTokens = 150
                     /\ context'.currentText = getTextContent(doc)
             /\ (Active(c) /\ calls'[c].pc # "done")
                  => calls'[c].text = calls[c].text
       /\ (state = "loading" /\ state' = "loading")
             => context'.currentText = context.currentText]_vars

EditedAfterClick ==
    /\ state = "loading"
    /\ calls[2].pc = "fetching"
    /\ context.currentText = calls[2].text
    /\ getTextContent(doc) # calls[2].text
    /\ Len(getTextContent(doc)) > Len(calls[2].text)

\* C33: while a request is in flight or a typing effect is running, both
\* Continue Writing and Reset are disabled.
ControlsDisabledWhileBusy ==
    (\E c \in CallIds : Active(c)) => (continueDisabled /\ resetDisabled)

\* C34: at most one request to the endpoint is in flight at any time.
OneRequestInFlight ==
    Cardinality({c \in CallIds : calls[c].pc = "fetching"}) <= 1

\* the characters only the provider produces: the user types none of them
GeneratedChars == {"b", "!"}

\* C35: when the handler of a request has ended with the machine in error,
\* the document holds no character of the generated text.
NoPartialRevealOnFailure ==
    (calls[1].pc = "done" /\ state = "error")
    => \A k \in 1 .. Len(getTextContent(doc)) :
           getTextContent(doc)[k] \notin GeneratedChars

\* C36: when the endpoint answers 200 with an empty continuedText, the
\* handler does not fail: its first step appends exactly one space to the
\* plain text, the typing effect is then complete, and its last step leaves
\* the document alone and sends SUCCESS, the machine entering success with
\* generatedText the empty text and no error.
EmptyContinuationRevealed ==
    [][(/\ io.network = "up"
        /\ io.provider.kind = "content"
        /\ Trim(io.provider.content) = <<>>
        /\ calls'[1] # calls[1])
       => \/ /\ calls[1].pc = "fetching"
             /\ calls'[1].pc = "typing"
             /\ Complete(1)'
             /\ getTextContent(doc') = Append(getTextContent(doc), " ")
          \/ /\ calls[1].pc = "typing"
             /\ calls'[1].pc = "done"
             /\ doc' = doc
             /\ state' = "success"
             /\ context'.generatedText = Some(<<>>)
             /\ context'.error = Null]_vars

EmptyContinuationSucceeded ==
    /\ io.provider.content = <<" ">>
    /\ calls[1].pc = "done"
    /\ state = "success"
    /\ context.generatedText = Some(<<>>)
    /\ getTextContent(doc) = context.currentText \o <<" ">>

\* C37: isTyping is true exactly while some typing effect is running: true
\* at every moment at which one runs, false once none does.
IsTypingTracksReveal ==
    isTyping <=> (\E c \in CallIds : calls[c].pc = "typing")

MissingCredentials(body) ==
    body.json # "object" \/ Falsy(body.username) \/ Falsy(body.password)

Configured(env) == ~Falsy(env.username) /\ ~Falsy(env.password)

\* C38: the login endpoint answers success only when both variables are
\* configured and the username and password posted equal them; 400 when a
\* username or a password is missing, 500 when they are present and the
\* variables are not configured, 401 on any mismatch; and isAuthenticated
\* is true only once login has had a successful response.
LoginAnswers ==
    /\ io.response # Null
         => LET r == The(io.response)
                body == The(io.body)
                matches == /\ body.username = io.env.username
                           /\ body.password = io.env.password
            IN /\ r.success <=> r.status = 200
               /\ r.status =
                     IF MissingCredentials(body) THEN 400
                     ELSE IF ~Configured(io.env) THEN 500
                     ELSE IF matches THEN 200 ELSE 401
    /\ io.isAuthenticated => io.succeeded

====
